---------------------------- MODULE Spec2Model ----------------------------
(***************************************************************************)
(* A model of scripts/generate-inventory.py: the three extractors, the     *)
(* three directory scans, the markdown renderer and main.                  *)
(*                                                                         *)
(* Text is a sequence of atoms.  An atom is a short string that the        *)
(* patterns of the script treat as a unit: a keyword ("export", "class",   *)
(* "bench", ...), an identifier piece ("foo", "x", "of"), a blank, or one  *)
(* punctuation character.  Word atoms that touch form one \w+ run, exactly *)
(* as their letters do in the file, so "x" next to "class" is the word     *)
(* "xclass" and still ends in the keyword: the patterns have no \b.        *)
(***************************************************************************)
EXTENDS Naturals, Sequences, FiniteSets, TLC

VARIABLES
    pc,         \* position of the run
    content,    \* text of the file being written / read
    written,    \* what has been written into the file, piece by piece
    symbols,    \* value returned by extract_typescript_symbols, or NoValue
    benchmarks, \* value returned by extract_benchmark_names, or NoValue
    behaviors,  \* value returned by extract_test_behaviors, or NoValue
    src_inventory,      \* dict filled by generate_src_inventory, in insertion order
    benches_inventory,  \* dict filled by generate_benches_inventory
    tests_inventory,    \* dict filled by generate_tests_inventory
    lines,              \* the list generate_markdown_inventory has built, or NoValue
    markdown_content,   \* value returned by generate_markdown_inventory, or NoValue
    other,              \* the inventories of a second run over the same files
    other_content,      \* what generate_markdown_inventory returns for them
    output_file,        \* text of inventory.md, or NoValue while it is not written
    roots,      \* what each of src/, benches/, tests/ is on disk
    root,       \* the directory being scanned
    tree,       \* the files under the directory being scanned
    pattern,    \* position in the list of patterns of the scan
    visited,    \* the files the loops of the scan have been through, in order
    printed     \* paths of the "Error processing" lines printed so far

extractVars == <<content, written, symbols, benchmarks, behaviors>>
inventoryVars == <<src_inventory, benches_inventory, tests_inventory>>
renderVars == <<lines, markdown_content, other, other_content, output_file>>
scanVars == <<roots, root, tree, pattern, visited, printed>>
vars == <<pc, extractVars, inventoryVars, renderVars, scanVars>>

NoValue == "NoValue"

---------------------------------------------------------------------------
(* Bounds of the model *)
MaxFrags == 2      \* declarations written into one source file
MaxCalls == 2      \* calls written into one benchmark or test file
MaxEntries == 2    \* files in the inventories handed to the renderer alone

---------------------------------------------------------------------------
(* Character classes of Python's re module *)

Identifiers == {"foo", "x", "of"}
DeclKeywords == {"const", "function", "class", "interface", "type"}
SampleIdentifiers == {"Foo", "Bar", "bar"}
WordAtoms == Identifiers \cup SampleIdentifiers \cup DeclKeywords \cup {"export", "async"}
SpaceAtoms == {" ", "\n"}

IsWord(c, i) == i <= Len(c) /\ c[i] \in WordAtoms
IsSpace(c, i) == i <= Len(c) /\ c[i] \in SpaceAtoms
Lit(c, i, a) == i <= Len(c) /\ c[i] = a

\* \s* from position i: the first position that holds no blank (greedy; no
\* pattern of the script can use a blank that \s* gives back).
RECURSIVE SkipSpaces(_, _)
SkipSpaces(c, i) == IF IsSpace(c, i) THEN SkipSpaces(c, i + 1) ELSE i

\* \w* from position i: the first position that holds no word character.
RECURSIVE SkipWord(_, _)
SkipWord(c, i) == IF IsWord(c, i) THEN SkipWord(c, i + 1) ELSE i

\* The string a run of atoms stands for.
RECURSIVE Flatten(_)
Flatten(s) == IF s = <<>> THEN "" ELSE Head(s) \o Flatten(Tail(s))

NoMatch == [ok |-> FALSE, end |-> 0, group |-> ""]
Match(e, g) == [ok |-> TRUE, end |-> e, group |-> g]

\* literal \s+  : position after the literal and its blanks, 0 if no match
LitSpaces(c, i, a) ==
    IF Lit(c, i, a) /\ IsSpace(c, i + 1) THEN SkipSpaces(c, i + 1) ELSE 0

\* (?:literal\s+)?  : greedy, and when taken the pattern cannot recover by
\* dropping it, because what follows would have to start at the literal.
OptLitSpaces(c, i, a) ==
    IF Lit(c, i, a) /\ IsSpace(c, i + 1) THEN SkipSpaces(c, i + 1) ELSE i

\* (\w+) anchored at i, as a match ending after the run
WordGroup(c, i) ==
    IF IsWord(c, i)
    THEN LET e == SkipWord(c, i) IN Match(e, Flatten(SubSeq(c, i, e - 1)))
    ELSE NoMatch

\* keyword\s+(\w+) at position i
KeywordName(c, i, kw) ==
    IF Lit(c, i, kw) /\ IsSpace(c, i + 1) THEN WordGroup(c, SkipSpaces(c, i + 1)) ELSE NoMatch

\* re.findall: leftmost matches, the scan resuming where a match ended
RECURSIVE FindFrom(_, _, _)
FindFrom(m, n, i) ==
    IF i > n THEN <<>>
    ELSE IF m[i].ok THEN <<m[i].group>> \o FindFrom(m, n, m[i].end)
    ELSE FindFrom(m, n, i + 1)

re_findall(m, c) == FindFrom(m, Len(c), 1)

---------------------------------------------------------------------------
(* extract_typescript_symbols *)

\* (?:export\s+)?(?:async\s+)?function\s+(\w+)\s*\(
func_pattern(c, i) ==
    LET p == OptLitSpaces(c, OptLitSpaces(c, i, "export"), "async")
        w == KeywordName(c, p, "function")
        q == SkipSpaces(c, w.end)
    IN  IF w.ok /\ Lit(c, q, "(") THEN Match(q + 1, w.group) ELSE NoMatch

\* (?:export\s+)?class\s+(\w+)
class_pattern(c, i) == KeywordName(c, OptLitSpaces(c, i, "export"), "class")

\* (?:export\s+)?interface\s+(\w+)
interface_pattern(c, i) == KeywordName(c, OptLitSpaces(c, i, "export"), "interface")

\* (?:export\s+)?type\s+(\w+)\s*=
type_pattern(c, i) ==
    LET w == KeywordName(c, OptLitSpaces(c, i, "export"), "type")
        q == SkipSpaces(c, w.end)
    IN  IF w.ok /\ Lit(c, q, "=") THEN Match(q + 1, w.group) ELSE NoMatch

\* (?:export\s+)?const\s+(\w+)\s*[:=]
const_pattern(c, i) ==
    LET w == KeywordName(c, OptLitSpaces(c, i, "export"), "const")
        q == SkipSpaces(c, w.end)
    IN  IF w.ok /\ (Lit(c, q, ":") \/ Lit(c, q, "="))
        THEN Match(q + 1, w.group)
        ELSE NoMatch

\* re.search(rf'const\s+{re.escape(match)}\s*=\s*\(', content): the escaped
\* name is followed by \s*= and so has to end its word.
function_assignment(c, name) ==
    \E i \in 1..Len(c) :
        LET w == KeywordName(c, i, "const")
            q == SkipSpaces(c, w.end)
        IN  /\ w.ok
            /\ w.group = name
            /\ Lit(c, q, "=")
            /\ Lit(c, SkipSpaces(c, q + 1), "(")

ConstNoFilter(c, const_matches) == const_matches

\* the loop of lines 45-48
const_filter(c, const_matches) ==
    SelectSeq(const_matches, LAMBDA match : ~function_assignment(c, match))

ExportPatternNoFunction(c, i) ==
    LET p == LitSpaces(c, i, "export")
    IN  IF p # 0 /\ p <= Len(c) /\ c[p] \in DeclKeywords \ {"function"}
        THEN KeywordName(c, p, c[p])
        ELSE NoMatch

\* export\s+(?:const|function|class|interface|type)\s+(\w+)
export_pattern(c, i) ==
    LET p == LitSpaces(c, i, "export")
    IN  IF p # 0 /\ p <= Len(c) /\ c[p] \in DeclKeywords
        THEN KeywordName(c, p, c[p])
        ELSE NoMatch

keywords_to_filter ==
    {"if", "for", "while", "do", "switch", "case", "default", "try", "catch",
     "finally", "throw", "return", "break", "continue", "new", "this", "super",
     "extends", "implements", "import", "export", "from", "as", "typeof",
     "instanceof", "in", "of", "let", "var", "const"}

Range(s) == {s[i] : i \in 1..Len(s)}

\* every list without repetition that enumerates the set S
Orders(S) ==
    {s \in [1..Cardinality(S) -> S] : \A i, j \in 1..Cardinality(S) : s[i] = s[j] => i = j}

Keep(s) == s \notin keywords_to_filter /\ Len(s) > 1

\* [s for s in set(symbols[key]) if s not in keywords_to_filter and len(s) > 1]
\* The iteration order of a set of strings changes with the hash seed, so the
\* value is any order of the kept names.
DedupNoSet(found) == {SelectSeq(found, Keep)}
dedup_and_filter(found) == Orders({s \in Range(found) : Keep(s)})

SymbolKeys == {"functions", "classes", "interfaces", "types", "constants", "exports"}

\* the lists of lines 27-52, before line 58
found_symbols(c) ==
    [functions  |-> re_findall([i \in 1..Len(c) |-> func_pattern(c, i)], c),
     classes    |-> re_findall([i \in 1..Len(c) |-> class_pattern(c, i)], c),
     interfaces |-> re_findall([i \in 1..Len(c) |-> interface_pattern(c, i)], c),
     types      |-> re_findall([i \in 1..Len(c) |-> type_pattern(c, i)], c),
     constants  |-> const_filter(c, re_findall([i \in 1..Len(c) |-> const_pattern(c, i)], c)),
     exports    |-> re_findall([i \in 1..Len(c) |-> export_pattern(c, i)], c)]

\* the values extract_typescript_symbols(c) can return
extract_typescript_symbols(c) ==
    LET f == found_symbols(c)
    IN  {[functions |-> fu, classes |-> cl, interfaces |-> it,
          types |-> ty, constants |-> co, exports |-> ex] :
            fu \in dedup_and_filter(f.functions),
            cl \in dedup_and_filter(f.classes),
            it \in dedup_and_filter(f.interfaces),
            ty \in dedup_and_filter(f.types),
            co \in dedup_and_filter(f.constants),
            ex \in dedup_and_filter(f.exports)}

---------------------------------------------------------------------------
(* extract_benchmark_names and extract_test_behaviors *)

QuoteAtoms == {"'", "\""}
IsQuote(c, i) == i <= Len(c) /\ c[i] \in QuoteAtoms

\* [^'"]* from position i: the first position that holds a quote, or the end
RECURSIVE SkipToQuote(_, _)
SkipToQuote(c, i) == IF i <= Len(c) /\ c[i] \notin QuoteAtoms THEN SkipToQuote(c, i + 1) ELSE i

\* name\(\s*['"]([^'"]+)['"]  : the group is the text between the opening
\* quote and the next quote of either kind, and is not empty.
call_pattern(c, i, names) ==
    LET q == SkipSpaces(c, i + 2)
        r == SkipToQuote(c, q + 1)
    IN  IF /\ i <= Len(c) /\ c[i] \in names
           /\ Lit(c, i + 1, "(")
           /\ IsQuote(c, q)
           /\ r > q + 1
           /\ IsQuote(c, r)
        THEN Match(r + 1, SubSeq(c, q + 1, r - 1))
        ELSE NoMatch

\* bench\(\s*['"]([^'"]+)['"]
bench_pattern(c, i) == call_pattern(c, i, {"bench"})
\* describe\(\s*['"]([^'"]+)['"]
describe_pattern(c, i) == call_pattern(c, i, {"describe"})
\* (?:it|test)\(\s*['"]([^'"]+)['"]
test_pattern(c, i) == call_pattern(c, i, {"it", "test"})

\* return list(set(benchmarks)): any order of the distinct labels
BenchmarksNoSet(c) ==
    {re_findall([i \in 1..Len(c) |-> bench_pattern(c, i)], c)
        \o re_findall([i \in 1..Len(c) |-> describe_pattern(c, i)], c)}
extract_benchmark_names(c) ==
    Orders(Range(re_findall([i \in 1..Len(c) |-> bench_pattern(c, i)], c)
                    \o re_findall([i \in 1..Len(c) |-> describe_pattern(c, i)], c)))

BehaviorsDeduplicated(c) ==
    CHOOSE s \in Orders(Range(re_findall([i \in 1..Len(c) |-> test_pattern(c, i)], c))) : TRUE
extract_test_behaviors(c) == re_findall([i \in 1..Len(c) |-> test_pattern(c, i)], c)

---------------------------------------------------------------------------
(* Python values: str, int, list, dict *)

\* ord() of the characters that paths and labels are made of
ord(ch) ==
    CASE ch = "." -> 46  [] ch = "/" -> 47  [] ch = "B" -> 66
      [] ch = "a" -> 97  [] ch = "b" -> 98  [] ch = "c" -> 99
      [] ch = "e" -> 101 [] ch = "h" -> 104 [] ch = "n" -> 110
      [] ch = "r" -> 114 [] ch = "s" -> 115 [] ch = "t" -> 116
      [] ch = "x" -> 120 [] ch = "y" -> 121

\* a < b for two str, each given as the sequence of its characters
RECURSIVE str_lt(_, _)
str_lt(a, b) ==
    IF b = <<>> THEN FALSE
    ELSE IF a = <<>> THEN TRUE
    ELSE IF Head(a) = Head(b) THEN str_lt(Tail(a), Tail(b))
    ELSE ord(Head(a)) < ord(Head(b))

\* list.insert that keeps an ascending list ascending, after its equals
RECURSIVE Insert(_, _)
Insert(s, e) ==
    IF s = <<>> THEN <<e>>
    ELSE IF str_lt(e, Head(s)) THEN <<e>> \o s
    ELSE <<Head(s)>> \o Insert(Tail(s), e)

RECURSIVE SortFrom(_, _)
SortFrom(done, rest) ==
    IF rest = <<>> THEN done ELSE SortFrom(Insert(done, Head(rest)), Tail(rest))

NotSorted(s) == s
\* sorted(s) for a list of str
sorted(s) == SortFrom(<<>>, s)

Digits == <<"0", "1", "2", "3", "4", "5", "6", "7", "8", "9">>
\* str(n), as an f-string formats an int
RECURSIVE str_int(_)
str_int(n) == IF n < 10 THEN Digits[n + 1] ELSE str_int(n \div 10) \o Digits[(n % 10) + 1]

\* sep.join(parts)
RECURSIVE join(_, _)
join(sep, parts) ==
    IF parts = <<>> THEN ""
    ELSE IF Len(parts) = 1 THEN parts[1]
    ELSE parts[1] \o sep \o join(sep, Tail(parts))

RECURSIVE ConcatAll(_)
ConcatAll(ss) == IF ss = <<>> THEN <<>> ELSE Head(ss) \o ConcatAll(Tail(ss))

RECURSIVE SumSeq(_)
SumSeq(ns) == IF ns = <<>> THEN 0 ELSE Head(ns) + SumSeq(Tail(ns))

\* A dict is the sequence of its items in insertion order, keys distinct.
keys(d) == [i \in 1..Len(d) |-> d[i].key]
values(d) == [i \in 1..Len(d) |-> d[i].value]
HasKey(d, k) == \E i \in 1..Len(d) : d[i].key = k
Get(d, k) == d[CHOOSE i \in 1..Len(d) : d[i].key = k].value
\* d[k] = v
SetItem(d, k, v) ==
    IF HasKey(d, k)
    THEN [i \in 1..Len(d) |-> IF d[i].key = k THEN [key |-> k, value |-> v] ELSE d[i]]
    ELSE Append(d, [key |-> k, value |-> v])

---------------------------------------------------------------------------
(* generate_markdown_inventory *)

\* The back-quote of the markdown code spans.  The character cannot be
\* written inside a TLA+ string, so the apostrophe stands for it.
Tick == "'"

TotalWithTypes(d) ==
    SumSeq([i \in 1..Len(d) |->
        Len(d[i].value.symbols.functions) + Len(d[i].value.symbols.classes)
        + Len(d[i].value.symbols.interfaces) + Len(d[i].value.symbols.types)])

\* lines 180-183
total_src_symbols(d) ==
    SumSeq([i \in 1..Len(d) |->
        Len(d[i].value.symbols.functions) + Len(d[i].value.symbols.classes)
        + Len(d[i].value.symbols.interfaces)])

total_benchmarks(d) == SumSeq([i \in 1..Len(d) |-> Len(d[i].value.benchmarks)])
total_behaviors(d) == SumSeq([i \in 1..Len(d) |-> Len(d[i].value.behaviors)])

\* lines 170-191
summary_lines(src, ben, tst) ==
    << "# Askr Framework Inventory",
       "",
       "Generated on: 2025-12-17",
       "",
       "## Summary",
       "",
       "- **Source files**: " \o str_int(Len(src)),
       "- **Benchmark files**: " \o str_int(Len(ben)),
       "- **Test files**: " \o str_int(Len(tst)),
       "- **Total symbols in src/**: " \o str_int(total_src_symbols(src)),
       "- **Total benchmarks**: " \o str_int(total_benchmarks(ben)),
       "- **Total test behaviors**: " \o str_int(total_behaviors(tst)),
       "" >>

Count(list, noun) == IF list # <<>> THEN <<str_int(Len(list)) \o " " \o noun>> ELSE <<>>

CountsWithExports(sy) ==
    Count(sy.classes, "classes") \o Count(sy.interfaces, "interfaces")
    \o Count(sy.functions, "functions") \o Count(sy.types, "types")
    \o Count(sy.constants, "constants") \o Count(sy.exports, "exports")

\* lines 202-212
symbol_counts(sy) ==
    Count(sy.classes, "classes") \o Count(sy.interfaces, "interfaces")
    \o Count(sy.functions, "functions") \o Count(sy.types, "types")
    \o Count(sy.constants, "constants")

\* line 214
symbol_summary(sy) ==
    IF symbol_counts(sy) # <<>> THEN join(", ", symbol_counts(sy)) ELSE "No symbols"

\* lines 197-215
source_lines(src) ==
    LET paths == sorted(keys(src))
    IN  [i \in 1..Len(paths) |->
            "- " \o Tick \o Flatten(paths[i]) \o Tick \o " - " \o symbol_summary(Get(src, paths[i]).symbols)]

\* lines 223-229 and 235-241: one block per file, its labels as sub-lines
labelled_lines(d, field, noun) ==
    LET paths == sorted(keys(d))
    IN  ConcatAll([i \in 1..Len(paths) |->
            LET labels == Get(d, paths[i])[field]
                shown == sorted(labels)
            IN  <<"- " \o Tick \o Flatten(paths[i]) \o Tick \o " - " \o str_int(Len(labels)) \o " " \o noun>>
                \o [j \in 1..Len(shown) |-> "  - " \o Flatten(shown[j])]
                \o <<"">>])

markdown_lines(src, ben, tst) ==
    summary_lines(src, ben, tst)
    \o <<"## Source Files (" \o Tick \o "src/" \o Tick \o ")", "">>
    \o source_lines(src)
    \o <<"", "## Benchmark Files (" \o Tick \o "benches/" \o Tick \o ")", "">>
    \o labelled_lines(ben, "benchmarks", "benchmarks")
    \o <<"## Test Files (" \o Tick \o "tests/" \o Tick \o ")", "">>
    \o labelled_lines(tst, "behaviors", "test behaviors")

generate_markdown_inventory(src, ben, tst) == join("\n", markdown_lines(src, ben, tst))

---------------------------------------------------------------------------
(* generate_src_inventory, generate_benches_inventory, generate_tests_inventory *)

RootNames == {"src", "benches", "tests"}
RootChars(r) ==
    CASE r = "src" -> <<"s", "r", "c">>
      [] r = "benches" -> <<"b", "e", "n", "c", "h", "e", "s">>
      [] r = "tests" -> <<"t", "e", "s", "t", "s">>

Ts == <<".", "t", "s">>
Tsx == <<".", "t", "s", "x">>

\* patterns = ['*.ts', '*.tsx']; the benches scan has '*.ts' alone
patterns(r) == IF r = "benches" THEN <<Ts>> ELSE <<Ts, Tsx>>

\* What root.rglob(pattern) yields: the entries under root whose name ends
\* in the extension.  pathlib swallows the errors of listing a directory and
\* yields nothing for a root that is missing or cannot be read.
rglob(status, r, files, ext) ==
    IF status = "present" THEN {f \in files : f.dir = r /\ f.ext = ext} ELSE {}

RglobRaisesUnlessPresent(status) == status # "present"
\* whether root.rglob(pattern) raises
rglob_raises(status) == FALSE

\* file_path.relative_to(root.parent)
relative_to(r, f) == RootChars(r) \o <<"/">> \o f.stem \o f.ext

\* len(content): the characters of the atoms
RECURSIVE size(_)
size(c) == IF c = <<>> THEN 0 ELSE Len(Head(c)) + size(Tail(c))

\* len(content.splitlines())
line_count(c) ==
    Cardinality({i \in 1..Len(c) : c[i] = "\n"})
    + (IF c # <<>> /\ c[Len(c)] # "\n" THEN 1 ELSE 0)

\* the values the scan of root r can store for a content
file_data(r, c) ==
    CASE r = "src" ->
            {[symbols |-> sy, line_count |-> line_count(c), size |-> size(c)] :
                sy \in extract_typescript_symbols(c)}
      [] r = "benches" ->
            {[benchmarks |-> b, line_count |-> line_count(c), size |-> size(c)] :
                b \in extract_benchmark_names(c)}
      [] r = "tests" ->
            {[behaviors |-> extract_test_behaviors(c),
              line_count |-> line_count(c), size |-> size(c)]}

inventory(r) ==
    CASE r = "src" -> src_inventory
      [] r = "benches" -> benches_inventory
      [] r = "tests" -> tests_inventory

\* the three inventories with that of r replaced by d
Stored(r, d) ==
    [src |-> IF r = "src" THEN d ELSE src_inventory,
     benches |-> IF r = "benches" THEN d ELSE benches_inventory,
     tests |-> IF r = "tests" THEN d ELSE tests_inventory]

PropagateError(path) == [pc |-> "failed", printed |-> printed]
\* except Exception as e: print(f"Error processing {file_path}: {e}")
except_Exception(path) == [pc |-> "scan", printed |-> Append(printed, path)]

\* generate_*_inventory(repo_root / root) is called: inventory = {} and the
\* first rglob is started.  The disk holds the files given.
EnterScan(files) ==
    /\ pc = "call"
    /\ tree' = files
    /\ pattern' = 1
    /\ visited' = <<>>
    /\ pc' = IF rglob_raises(roots[root]) THEN "failed" ELSE "scan"
    /\ UNCHANGED <<extractVars, inventoryVars, renderVars, roots, root, printed>>

\* one turn of the inner for loop, for an entry rglob yields in any order
ProcessFile ==
    /\ pc = "scan"
    /\ \E f \in rglob(roots[root], root, tree, patterns(root)[pattern]) \ Range(visited) :
        /\ visited' = Append(visited, f)
        /\ IF f.state = "dir"
           THEN UNCHANGED <<pc, inventoryVars, printed>>
           ELSE IF f.state = "corrupt"
           THEN /\ pc' = except_Exception(relative_to(root, f)).pc
                /\ printed' = except_Exception(relative_to(root, f)).printed
                /\ UNCHANGED inventoryVars
           ELSE \E data \in file_data(root, f.content) :
                LET st == Stored(root, SetItem(inventory(root), relative_to(root, f), data))
                IN  /\ src_inventory' = st.src
                    /\ benches_inventory' = st.benches
                    /\ tests_inventory' = st.tests
                    /\ UNCHANGED <<pc, printed>>
    /\ UNCHANGED <<extractVars, renderVars, roots, root, tree, pattern>>

\* rglob is exhausted: the next pattern, or return inventory
NextPattern ==
    /\ pc = "scan"
    /\ rglob(roots[root], root, tree, patterns(root)[pattern]) \subseteq Range(visited)
    /\ IF pattern < Len(patterns(root))
       THEN pattern' = pattern + 1 /\ pc' = "scan"
       ELSE pattern' = pattern /\ pc' = "returned"
    /\ UNCHANGED <<extractVars, inventoryVars, renderVars, roots, root, tree, visited, printed>>

NextRoot(r) == IF r = "src" THEN "benches" ELSE "tests"

\* main, lines 251-253: the next scan is called
CallNextScan ==
    /\ pc = "returned"
    /\ root # "tests"
    /\ root' = NextRoot(root)
    /\ pc' = "call"
    /\ UNCHANGED <<extractVars, inventoryVars, renderVars, roots, tree, pattern, visited, printed>>

\* main, line 256
RenderReport ==
    /\ pc = "returned"
    /\ root = "tests"
    /\ lines' = markdown_lines(src_inventory, benches_inventory, tests_inventory)
    /\ markdown_content' =
            generate_markdown_inventory(src_inventory, benches_inventory, tests_inventory)
    /\ pc' = "rendered"
    /\ UNCHANGED <<extractVars, inventoryVars, other, other_content, output_file, scanVars>>

\* main, lines 259-261
WriteReport ==
    /\ pc = "rendered"
    /\ output_file' = markdown_content
    /\ pc' = "done"
    /\ UNCHANGED <<extractVars, inventoryVars, lines, markdown_content, other, other_content, scanVars>>

---------------------------------------------------------------------------
(* Source text: the declarations a file is made of *)

ExportOpt(e) == IF e THEN <<"export", " ">> ELSE <<>>
AsyncOpt(a) == IF a THEN <<"async", " ">> ELSE <<>>

FunctionDecl(e, a, name) == ExportOpt(e) \o AsyncOpt(a) \o <<"function", " ", name, "(", "\n">>
ClassDecl(e, name) == ExportOpt(e) \o <<"class", " ", name, "\n">>
InterfaceDecl(e, name) == ExportOpt(e) \o <<"interface", " ", name, "\n">>
TypeDecl(e, name) == ExportOpt(e) \o <<"type", " ", name, " ", "=", "\n">>
ConstShapes == {<<":", "\n">>, <<" ", "=", " ", "(", "\n">>, <<" ", "=", "\n">>}
ConstDecl(e, name, shape) == ExportOpt(e) \o <<"const", " ", name>> \o shape
\* an export prefix whose name is still to come
ExportHead(kw) == <<"export", " ", kw, " ">>
\* a bare word, which joins the word atoms it touches
BareWord(name) == <<name>>

Write(frag) ==
    /\ pc = "write"
    /\ Len(written) < MaxFrags
    /\ content' = content \o frag
    /\ written' = Append(written, frag)
    /\ UNCHANGED <<pc, symbols, benchmarks, behaviors, inventoryVars, renderVars, scanVars>>

WriteFunction == \E e, a \in BOOLEAN, name \in Identifiers : Write(FunctionDecl(e, a, name))
WriteClass == \E e \in BOOLEAN, name \in Identifiers : Write(ClassDecl(e, name))
WriteInterface == \E e \in BOOLEAN, name \in Identifiers : Write(InterfaceDecl(e, name))
WriteType == \E e \in BOOLEAN, name \in Identifiers : Write(TypeDecl(e, name))
WriteConst ==
    \E e \in BOOLEAN, name \in Identifiers, shape \in ConstShapes : Write(ConstDecl(e, name, shape))
WriteExportHead == \E kw \in DeclKeywords : Write(ExportHead(kw))
WriteWord == \E name \in Identifiers : Write(BareWord(name))

\* symbols = extract_typescript_symbols(content)
ExtractSymbols ==
    /\ pc = "write"
    /\ symbols' \in extract_typescript_symbols(content)
    /\ pc' = "extracted"
    /\ UNCHANGED <<content, written, benchmarks, behaviors, inventoryVars, renderVars, scanVars>>

InitSymbols ==
    /\ pc = "write"
    /\ content = <<>>
    /\ written = <<>>
    /\ symbols = NoValue
    /\ benchmarks = NoValue
    /\ behaviors = NoValue
    /\ src_inventory = <<>>
    /\ benches_inventory = <<>>
    /\ tests_inventory = <<>>
    /\ lines = NoValue
    /\ markdown_content = NoValue
    /\ other = NoValue
    /\ other_content = NoValue
    /\ output_file = NoValue
    /\ roots = [r \in RootNames |-> "missing"]
    /\ root = "src"
    /\ tree = {}
    /\ pattern = 1
    /\ visited = <<>>
    /\ printed = <<>>

NextSymbols ==
    \/ WriteFunction
    \/ WriteClass
    \/ WriteInterface
    \/ WriteType
    \/ WriteConst
    \/ WriteExportHead
    \/ WriteWord
    \/ ExtractSymbols

SpecSymbols == InitSymbols /\ [][NextSymbols]_vars

---------------------------------------------------------------------------
(* Benchmark and test text: the calls a file is made of *)

CallNames == {"bench", "describe", "it", "test"}
Labels == {<<"x">>, <<"y">>}
Gaps == {<<>>, <<" ">>}
NoQuote == ""
Quotings == QuoteAtoms \cup {NoQuote}

Quoted(q, label) == IF q = NoQuote THEN label ELSE <<q>> \o label \o <<q>>
\* fn("label",   or   fn ("label",   or   fn(label,
Call(r) == <<r.fn>> \o r.gap \o <<"(">> \o Quoted(r.quote, r.label) \o <<",", "\n">>

WriteCall ==
    \E r \in [fn : CallNames, gap : Gaps, quote : Quotings, label : Labels] :
        /\ pc = "write"
        /\ Len(written) < MaxCalls
        /\ content' = content \o Call(r)
        /\ written' = Append(written, r)
        /\ UNCHANGED <<pc, symbols, benchmarks, behaviors, inventoryVars, renderVars, scanVars>>

\* benchmarks = extract_benchmark_names(content)
ExtractBenchmarks ==
    /\ pc = "write"
    /\ benchmarks' \in extract_benchmark_names(content)
    /\ pc' = "benchmarks"
    /\ UNCHANGED <<content, written, symbols, behaviors, inventoryVars, renderVars, scanVars>>

\* behaviors = extract_test_behaviors(content)
ExtractBehaviors ==
    /\ pc = "write"
    /\ behaviors' = extract_test_behaviors(content)
    /\ pc' = "behaviors"
    /\ UNCHANGED <<content, written, symbols, benchmarks, inventoryVars, renderVars, scanVars>>

NextCalls ==
    \/ WriteCall
    \/ ExtractBenchmarks
    \/ ExtractBehaviors

SpecCalls == InitSymbols /\ [][NextCalls]_vars

---------------------------------------------------------------------------
(* A run of main over directories that hold sample files *)

RootStates == {"present", "missing", "inaccessible"}

ExportClassFoo == <<"export", " ", "class", " ", "Foo", " ", "{", "}", "\n">>
InterfaceBar == <<"interface", " ", "Bar", " ", "{", "}", "\n">>
ExportArrow == ConstDecl(TRUE, "foo", <<" ", "=", " ", "(", "\n">>)

BenchCall(fn, label) == Call([fn |-> fn, gap |-> <<>>, quote |-> "'", label |-> label])

\* the text of the sample file with this stem under root r
SampleContent(r, stem) ==
    CASE r = "src" /\ stem = <<"a">> -> ExportClassFoo \o InterfaceBar
      [] r = "src" /\ stem # <<"a">> -> ExportArrow
      [] r = "benches" /\ stem = <<"a">> -> BenchCall("bench", <<"x">>) \o BenchCall("describe", <<"x">>)
      [] r = "benches" /\ stem # <<"a">> -> BenchCall("bench", <<"y">>) \o BenchCall("bench", <<"x">>)
      [] r = "tests" /\ stem = <<"a">> -> BenchCall("test", <<"x">>) \o BenchCall("test", <<"x">>)
      [] r = "tests" /\ stem # <<"a">> -> BenchCall("it", <<"y">>)

\* a.ts and b.ts are regular files, readable or not; c.tsx is a regular file
\* or a directory of that name
Entry(r, stem, ext, state) ==
    [dir |-> r, stem |-> stem, ext |-> ext, state |-> state, content |-> SampleContent(r, stem)]

Trees(r) ==
    {A \cup B \cup C :
        A \in {{}} \cup {{Entry(r, <<"a">>, Ts, st)} : st \in {"ok", "corrupt"}},
        B \in {{}} \cup {{Entry(r, <<"b">>, Ts, st)} : st \in {"ok", "corrupt"}},
        C \in {{}} \cup {{Entry(r, <<"c">>, Tsx, st)} : st \in {"ok", "dir"}}}

ScanDirectory == \E files \in Trees(root) : EnterScan(files)

InitMain ==
    /\ pc = "call"
    /\ content = <<>>
    /\ written = <<>>
    /\ symbols = NoValue
    /\ benchmarks = NoValue
    /\ behaviors = NoValue
    /\ src_inventory = <<>>
    /\ benches_inventory = <<>>
    /\ tests_inventory = <<>>
    /\ lines = NoValue
    /\ markdown_content = NoValue
    /\ other = NoValue
    /\ other_content = NoValue
    /\ output_file = NoValue
    /\ roots \in [RootNames -> RootStates]
    /\ root = "src"
    /\ tree = {}
    /\ pattern = 1
    /\ visited = <<>>
    /\ printed = <<>>

NextMain ==
    \/ ScanDirectory
    \/ ProcessFile
    \/ NextPattern
    \/ CallNextScan
    \/ RenderReport
    \/ WriteReport

SpecMain == InitMain /\ [][NextMain]_vars

---------------------------------------------------------------------------
(* A run of main over source files written declaration by declaration *)

TypeAndConstant == TypeDecl(FALSE, "bar") \o ConstDecl(FALSE, "bar", <<" ", "=", "\n">>)
Snippets ==
    {ExportClassFoo \o InterfaceBar, ExportArrow, FunctionDecl(FALSE, FALSE, "foo"), TypeAndConstant}

SourceNames == {[stem |-> <<"a">>, ext |-> Ts], [stem |-> <<"b">>, ext |-> Tsx]}

WriteSnippet ==
    \E sn \in Snippets :
        /\ pc = "write"
        /\ Len(written) < MaxFrags
        /\ \E n \in SourceNames : \A f \in tree : <<f.stem, f.ext>> # <<n.stem, n.ext>>
        /\ content' = content \o sn
        /\ written' = Append(written, sn)
        /\ UNCHANGED <<pc, symbols, benchmarks, behaviors, inventoryVars, renderVars, scanVars>>

\* the text is saved under src/, and the next file is begun
SaveFile ==
    \E n \in SourceNames :
        /\ pc = "write"
        /\ \A f \in tree : <<f.stem, f.ext>> # <<n.stem, n.ext>>
        /\ tree' = tree \cup {[dir |-> "src", stem |-> n.stem, ext |-> n.ext,
                              state |-> "ok", content |-> content]}
        /\ content' = <<>>
        /\ written' = <<>>
        /\ UNCHANGED <<pc, symbols, benchmarks, behaviors, inventoryVars, renderVars,
                       roots, root, pattern, visited, printed>>

RunMain ==
    /\ pc = "write"
    /\ content = <<>>
    /\ pc' = "call"
    /\ UNCHANGED <<extractVars, inventoryVars, renderVars, scanVars>>

\* src/ holds the saved files; benches/ and tests/ are empty
ScanWritten == EnterScan(tree)

InitSource ==
    /\ pc = "write"
    /\ content = <<>>
    /\ written = <<>>
    /\ symbols = NoValue
    /\ benchmarks = NoValue
    /\ behaviors = NoValue
    /\ src_inventory = <<>>
    /\ benches_inventory = <<>>
    /\ tests_inventory = <<>>
    /\ lines = NoValue
    /\ markdown_content = NoValue
    /\ other = NoValue
    /\ other_content = NoValue
    /\ output_file = NoValue
    /\ roots = [r \in RootNames |-> "present"]
    /\ root = "src"
    /\ tree = {}
    /\ pattern = 1
    /\ visited = <<>>
    /\ printed = <<>>

NextSource ==
    \/ WriteSnippet
    \/ SaveFile
    \/ RunMain
    \/ ScanWritten
    \/ ProcessFile
    \/ NextPattern
    \/ CallNextScan
    \/ RenderReport
    \/ WriteReport

SpecSource == InitSource /\ [][NextSource]_vars

---------------------------------------------------------------------------
(* generate_markdown_inventory on the inventories of two runs over the same
   files: the runs differ in the order rglob yields the files and in the
   order a set of strings is listed *)

\* every list that holds the elements of list as often as list does
Reorderings(list) == {[i \in 1..Len(list) |-> list[p[i]]] : p \in Orders(1..Len(list))}

\* s with e put in front of position k
InsertAt(s, k, e) == SubSeq(s, 1, k - 1) \o <<e>> \o SubSeq(s, k, Len(s))

NoSymbols ==
    [functions |-> <<>>, classes |-> <<>>, interfaces |-> <<>>,
     types |-> <<>>, constants |-> <<>>, exports |-> <<>>]
SomeSymbols ==
    [functions |-> <<"foo", "bar">>, classes |-> <<"Foo">>, interfaces |-> <<"Bar">>,
     types |-> <<>>, constants |-> <<"bar">>, exports |-> <<"Foo">>]

\* file data a scan can have stored
DataChoices(r) ==
    CASE r = "src" ->
            {[symbols |-> sy, line_count |-> 2, size |-> 10] : sy \in {NoSymbols, SomeSymbols}}
      [] r = "benches" ->
            {[benchmarks |-> b, line_count |-> 2, size |-> 10] :
                b \in {<< <<"x">> >>, << <<"y">>, <<"x">> >>, << <<"x", "y">>, <<"y">> >>}}
      [] r = "tests" ->
            {[behaviors |-> b, line_count |-> 2, size |-> 10] :
                b \in {<< <<"x">>, <<"x">> >>, << <<"y">>, <<"x">> >>, << <<"x">>, <<"x", "y">> >>}}

\* the same data as another run can have stored it
Reordered(r, data) ==
    CASE r = "src" ->
            {[data EXCEPT !.symbols.functions = fu] : fu \in Reorderings(data.symbols.functions)}
      [] r = "benches" ->
            {[data EXCEPT !.benchmarks = b] : b \in Reorderings(data.benchmarks)}
      [] r = "tests" ->
            {[data EXCEPT !.behaviors = b] : b \in Reorderings(data.behaviors)}

RenderedNames == {[stem |-> <<"a">>, ext |-> Tsx], [stem |-> <<"a", "b">>, ext |-> Ts],
                  [stem |-> <<"B">>, ext |-> Ts]}

Entries == Len(src_inventory) + Len(benches_inventory) + Len(tests_inventory)

\* a file is in the inventory of both runs, at any place in that of the second
AddFile ==
    \E r \in RootNames, n \in RenderedNames :
        \E data \in DataChoices(r), k \in 1..(Len(other[r]) + 1) :
            \E again \in Reordered(r, data) :
                /\ pc = "inventories"
                /\ Entries < MaxEntries
                /\ ~HasKey(inventory(r), relative_to(r, n))
                /\ LET st == Stored(r, Append(inventory(r),
                                              [key |-> relative_to(r, n), value |-> data]))
                   IN  /\ src_inventory' = st.src
                       /\ benches_inventory' = st.benches
                       /\ tests_inventory' = st.tests
                /\ other' = [other EXCEPT ![r] =
                                InsertAt(other[r], k, [key |-> relative_to(r, n), value |-> again])]
                /\ UNCHANGED <<pc, extractVars, lines, markdown_content, other_content,
                               output_file, scanVars>>

RenderBoth ==
    /\ pc = "inventories"
    /\ lines' = markdown_lines(src_inventory, benches_inventory, tests_inventory)
    /\ markdown_content' =
            generate_markdown_inventory(src_inventory, benches_inventory, tests_inventory)
    /\ other_content' = generate_markdown_inventory(other.src, other.benches, other.tests)
    /\ pc' = "rendered"
    /\ UNCHANGED <<extractVars, inventoryVars, other, output_file, scanVars>>

InitRender ==
    /\ pc = "inventories"
    /\ content = <<>>
    /\ written = <<>>
    /\ symbols = NoValue
    /\ benchmarks = NoValue
    /\ behaviors = NoValue
    /\ src_inventory = <<>>
    /\ benches_inventory = <<>>
    /\ tests_inventory = <<>>
    /\ lines = NoValue
    /\ markdown_content = NoValue
    /\ other = [src |-> <<>>, benches |-> <<>>, tests |-> <<>>]
    /\ other_content = NoValue
    /\ output_file = NoValue
    /\ roots = [r \in RootNames |-> "present"]
    /\ root = "src"
    /\ tree = {}
    /\ pattern = 1
    /\ visited = <<>>
    /\ printed = <<>>

NextRender == AddFile \/ RenderBoth

SpecRender == InitRender /\ [][NextRender]_vars

---------------------------------------------------------------------------
(* Claims about extract_typescript_symbols *)

Contains(c, f) == \E p \in 1..Len(c) : p + Len(f) - 1 <= Len(c) /\ SubSeq(c, p, p + Len(f) - 1) = f
OccursAt(c, f, p) == p + Len(f) - 1 <= Len(c) /\ SubSeq(c, p, p + Len(f) - 1) = f
NoRepeats(s) == \A i, j \in 1..Len(s) : s[i] = s[j] => i = j

\* C2: every category of the returned symbols holds no name twice, no
\* name of the reserved-keyword set and no name of length 1 or less.
C2_CategoriesAreFilteredSets ==
    pc = "extracted" =>
        \A k \in SymbolKeys :
            /\ NoRepeats(symbols[k])
            /\ \A i \in 1..Len(symbols[k]) :
                    symbols[k][i] \notin keywords_to_filter /\ Len(symbols[k][i]) > 1

\* a category where a repeated name, a keyword and a kept name were all found
C2_Witness ==
    /\ pc = "extracted"
    /\ \E k \in SymbolKeys :
        LET found == found_symbols(content)[k]
        IN  /\ ~NoRepeats(found)
            /\ symbols[k] # <<>>

ExportFunction(name) == <<"export", " ", "function", " ", name, "(">>

\* C3 as stated: every `export function bar(` puts bar into functions and
\* into exports, whatever the identifier bar is.
C3_AsStated ==
    pc = "extracted" =>
        \A name \in Identifiers :
            Contains(content, ExportFunction(name)) =>
                name \in Range(symbols.functions) /\ name \in Range(symbols.exports)

\* the export keyword at p is inside the name an earlier export match captures
Swallowed(c, p) == \E i \in 1..(p - 1) : export_pattern(c, i).ok /\ export_pattern(c, i).end > p

\* C3 amended: `export function bar(` puts bar into functions when bar is
\* longer than one character and no reserved keyword, and into exports as
\* well when its export keyword is not the name of an earlier export match.
C3_ExportFunctionInBoth ==
    pc = "extracted" =>
        \A name \in Identifiers :
            \A p \in 1..Len(content) :
                (OccursAt(content, ExportFunction(name), p) /\ Keep(name)) =>
                    /\ name \in Range(symbols.functions)
                    /\ ~Swallowed(content, p) => name \in Range(symbols.exports)

C3_Witness ==
    /\ pc = "extracted"
    /\ Contains(content, ExportFunction("foo"))
    /\ "foo" \in Range(symbols.functions)
    /\ "foo" \in Range(symbols.exports)

FunctionAssignment(name) == <<"const", " ", name, " ", "=", " ", "(">>

\* C4: a content that holds `const foo = (` never has foo among its
\* constants, whatever other declarations of foo it holds.
C4_FunctionAssignmentNotConstant ==
    pc = "extracted" =>
        \A name \in Identifiers :
            Contains(content, FunctionAssignment(name)) => name \notin Range(symbols.constants)

\* foo is assigned a function expression and also declared with an annotation
C4_Witness ==
    /\ pc = "extracted"
    /\ Contains(content, FunctionAssignment("foo"))
    /\ Contains(content, <<"const", " ", "foo", ":">>)
    /\ symbols.constants = <<>>

---------------------------------------------------------------------------
(* Claims about extract_test_behaviors and extract_benchmark_names *)

\* the written calls that are fn("label" with fn among names
QuotedCalls(names) ==
    SelectSeq(written, LAMBDA r : r.fn \in names /\ r.gap = <<>> /\ r.quote # NoQuote)
LabelsOf(calls) == [i \in 1..Len(calls) |-> calls[i].label]

\* C8: the behaviors are the quoted first arguments of the it( and test(
\* calls, one per call, in the order of the calls, repeated when the call is.
C8_BehaviorsInFileOrder ==
    pc = "behaviors" => behaviors = LabelsOf(QuotedCalls({"it", "test"}))

\* test("x", twice
C8_Witness ==
    /\ pc = "behaviors"
    /\ Len(written) = 2
    /\ written[1] = written[2]
    /\ written[1].fn = "test"
    /\ behaviors = << <<"x">>, <<"x">> >>

\* C9: the benchmark names are the labels of the bench( and describe( calls,
\* each label once, however often and under whichever of the two it is used.
C9_BenchmarksAreTheUnion ==
    pc = "benchmarks" =>
        /\ NoRepeats(benchmarks)
        /\ Range(benchmarks) = Range(LabelsOf(QuotedCalls({"bench"})))
                                   \cup Range(LabelsOf(QuotedCalls({"describe"})))

\* one label used as a bench name and as a describe name
C9_Witness ==
    /\ pc = "benchmarks"
    /\ Len(QuotedCalls({"bench"})) = 1
    /\ Len(QuotedCalls({"describe"})) = 1
    /\ benchmarks = << <<"y">> >>

---------------------------------------------------------------------------
(* Claims about the scans and main *)

\* the regular files under the scanned directory that a pattern matches
Matching == {f \in tree : f.dir = root /\ f.state # "dir" /\ f.ext \in Range(patterns(root))}
Failing == {f \in Matching : f.state = "corrupt"}
\* the warnings that name a path under the scanned directory
Warned == {p \in Range(printed) : SubSeq(p, 1, Len(RootChars(root))) = RootChars(root)}

\* C1: a scan does not abort on a file that cannot be read.  It returns one
\* entry for every matching file that can be read and none for the others,
\* so N - 1 entries when one of N files fails, and has printed a warning
\* with the path of each file that failed.
C1_ScanSkipsUnreadableFiles ==
    /\ pc # "failed"
    /\ (pc = "returned" /\ roots[root] = "present") =>
        /\ Range(keys(inventory(root))) = {relative_to(root, f) : f \in Matching \ Failing}
        /\ Len(inventory(root)) = Cardinality(Matching) - Cardinality(Failing)
        /\ Warned = {relative_to(root, f) : f \in Failing}

\* three matching files, the one that fails met first
C1_Witness ==
    /\ pc = "returned"
    /\ roots[root] = "present"
    /\ Cardinality(Matching) = 3
    /\ Cardinality(Failing) = 1
    /\ visited[1] \in Failing
    /\ Len(inventory(root)) = 2
    /\ Warned # {}

Absent == {r \in RootNames : roots[r] # "present"}

---------------------------------------------------------------------------
(* Claims about generate_markdown_inventory *)

\* the list of the elements of S in ascending order
Ascending(S) == CHOOSE s \in Orders(S) : \A i \in 1..(Len(s) - 1) : str_lt(s[i], s[i + 1])
\* the elements of list, as often as in list, none before a smaller one
NonDecreasing(list) ==
    CHOOSE s \in Reorderings(list) : \A i \in 1..(Len(s) - 1) : ~str_lt(s[i + 1], s[i])

Rendered == pc \in {"rendered", "done"}

AscendingLines(d, field, noun) ==
    LET paths == Ascending(Range(keys(d)))
    IN  ConcatAll([i \in 1..Len(paths) |->
            LET labels == NonDecreasing(Get(d, paths[i])[field])
            IN  <<"- " \o Tick \o Flatten(paths[i]) \o Tick \o " - "
                    \o str_int(Len(labels)) \o " " \o noun>>
                \o [j \in 1..Len(labels) |-> "  - " \o Flatten(labels[j])]
                \o <<"">>])

\* the lines of the source listing: they follow the 13 lines of the summary
\* and the 2 of the heading
SourceListing == SubSeq(lines, 16, 15 + Len(src_inventory))
\* the lines from the benchmark heading on
AfterSourceListing == SubSeq(lines, 16 + Len(src_inventory), Len(lines))

\* C6: two runs whose inventories hold the same files with the same labels,
\* inserted and listed in different orders, render the same text; the files
\* are listed by ascending path and the labels of a file in ascending order.
C6_RenderIgnoresOrder ==
    pc = "rendered" =>
        /\ markdown_content = other_content
        /\ LET paths == Ascending(Range(keys(src_inventory)))
           IN  SourceListing =
                [i \in 1..Len(paths) |->
                    "- " \o Tick \o Flatten(paths[i]) \o Tick \o " - "
                        \o symbol_summary(Get(src_inventory, paths[i]).symbols)]
        /\ AfterSourceListing =
                <<"", "## Benchmark Files (" \o Tick \o "benches/" \o Tick \o ")", "">>
                \o AscendingLines(benches_inventory, "benchmarks", "benchmarks")
                \o <<"## Test Files (" \o Tick \o "tests/" \o Tick \o ")", "">>
                \o AscendingLines(tests_inventory, "behaviors", "test behaviors")

\* two files inserted in descending order by one run and in ascending order
\* by the other, with two labels listed in different orders
C6_Witness ==
    /\ pc = "rendered"
    /\ Len(tests_inventory) = 2
    /\ str_lt(tests_inventory[2].key, tests_inventory[1].key)
    /\ keys(other.tests) # keys(tests_inventory)
    /\ \E i \in 1..2 :
        /\ other.tests[i].key = tests_inventory[1].key
        /\ other.tests[i].value.behaviors # tests_inventory[1].value.behaviors
        /\ str_lt(tests_inventory[1].value.behaviors[2], tests_inventory[1].value.behaviors[1])

\* the saved source files
Sources == {f \in tree : f.dir = "src"}

\* the names a pattern finds in a text that the filter keeps
Kept(found) == {n \in Range(found) : Keep(n)}
Counted(f) ==
    Cardinality(Kept(re_findall([i \in 1..Len(f.content) |-> func_pattern(f.content, i)], f.content)))
    + Cardinality(Kept(re_findall([i \in 1..Len(f.content) |-> class_pattern(f.content, i)], f.content)))
    + Cardinality(Kept(re_findall([i \in 1..Len(f.content) |-> interface_pattern(f.content, i)], f.content)))

RECURSIVE SumCounted(_)
SumCounted(S) ==
    IF S = {} THEN 0
    ELSE LET f == CHOOSE f \in S : TRUE IN Counted(f) + SumCounted(S \ {f})

\* the line of the source listing for the file f
ListingLine(f) ==
    LET paths == Ascending(Range(keys(src_inventory)))
        i == CHOOSE i \in 1..Len(paths) : paths[i] = relative_to("src", f)
    IN  SourceListing[i]
LinePrefix(f) == "- " \o Tick \o Flatten(relative_to("src", f)) \o Tick \o " - "

\* C7: the total of the summary is the number of functions, classes and
\* interfaces of the source files; types, constants and exports add nothing.
\* A lone file `export class Foo {}`, `interface Bar {}` is listed with
\* "1 classes, 1 interfaces" and gives the total 2.
C7_TotalCountsThreeCategories ==
    Rendered =>
        /\ lines[10] = "- **Total symbols in src/**: " \o str_int(SumCounted(Sources))
        /\ \A f \in Sources :
            f.content = ExportClassFoo \o InterfaceBar =>
                /\ ListingLine(f) = LinePrefix(f) \o "1 classes, 1 interfaces"
                /\ Sources = {f} => lines[10] = "- **Total symbols in src/**: 2"

\* a file with a function, and a file with a type, a constant and an export
C7_Witness ==
    /\ Rendered
    /\ lines[10] = "- **Total symbols in src/**: 1"
    /\ \E f, g \in Sources :
        /\ f.content = FunctionDecl(FALSE, FALSE, "foo")
        /\ g.content = TypeAndConstant \o ExportArrow

ListedKeys == <<"classes", "interfaces", "functions", "types", "constants">>
SymbolsOf(f) == Get(src_inventory, relative_to("src", f)).symbols
NonEmptyListed(f) == SelectSeq(ListedKeys, LAMBDA k : SymbolsOf(f)[k] # <<>>)
ExpectedCounts(f) ==
    [i \in 1..Len(NonEmptyListed(f)) |->
        str_int(Len(SymbolsOf(f)[NonEmptyListed(f)[i]])) \o " " \o NonEmptyListed(f)[i]]

\* C10 as stated: the placeholder is shown exactly when the file has no
\* recognized symbol, in none of the six categories.
C10_AsStated ==
    Rendered =>
        \A f \in Sources :
            ListingLine(f) = LinePrefix(f) \o "No symbols"
                <=> \A k \in SymbolKeys : SymbolsOf(f)[k] = <<>>

\* C10 amended: the placeholder "No symbols" is shown exactly when the five
\* listed categories classes, interfaces, functions, types, constants are
\* all empty, whatever exports holds; otherwise the line shows the counts of
\* the non-empty ones in that order, joined by commas; it is never empty.
C10_PlaceholderWhenNothingListed ==
    Rendered =>
        \A f \in Sources :
            /\ ListingLine(f) = LinePrefix(f) \o "No symbols" <=> NonEmptyListed(f) = <<>>
            /\ NonEmptyListed(f) # <<>> =>
                    ListingLine(f) = LinePrefix(f) \o join(", ", ExpectedCounts(f))
            /\ ListingLine(f) # LinePrefix(f)

\* a file that only exports an arrow function, and a file with nothing
C10_Witness ==
    /\ Rendered
    /\ \E f, g \in Sources :
        /\ f.content = ExportArrow
        /\ SymbolsOf(f).exports = <<"foo">>
        /\ ListingLine(f) = LinePrefix(f) \o "No symbols"
        /\ g.content = <<>>
        /\ ListingLine(g) = LinePrefix(g) \o "No symbols"

====
